---- MODULE Spec2Model ----
(***************************************************************************)
(* promised-sqlite3: promise wrappers around the callback API of           *)
(* sqlite3.Database.                                                       *)
(*                                                                         *)
(*   AsyncDatabase                src/src/index.ts                         *)
(*   PromisedDatabase (each with a fixed signature)    src/unnamed/part_001 *)
(*   PromisedDatabase (each with a variadic signature) src/unnamed/part_000 *)
(*                                                                         *)
(* A method call runs its Promise executor synchronously, so one call is   *)
(* one action: it may settle the promise at once and may hand a callback   *)
(* to the engine.  The engine fires the callbacks later, one action per    *)
(* callback, with an error or a result of its own choosing.                *)
(***************************************************************************)
EXTENDS Integers, Sequences, FiniteSets, TLC

VARIABLES
    version,    \* which of the three versions of the package the program loads
    handles,    \* the wrapper objects: class and wrapped connection (db / _db)
    conns,      \* the engine's connections, by id: what the engine last reported
    ops,        \* the promises returned by the calls made so far, in call order
    calls       \* the engine primitives invoked so far, with their callbacks

vars == <<version, handles, conns, ops, calls>>

\* ---- bounds --------------------------------------------------------------
\* Calls into the package in one behaviour: open, close, run, get, all, each,
\* exec and new AsyncDatabase(db).
MaxCalls == 2
\* Row events (a row or a per-row error) the engine reports in one behaviour.
MaxRows == 2

\* ---- JavaScript values ---------------------------------------------------
\* Arguments of a call: scalars, arrays, functions, undefined.
JS(tag, s, items) == [tag |-> tag, s |-> s, items |-> items]
Scalar(s) == JS("scalar", s, <<>>)
Arr(items) == JS("array", "", items)
Fn == JS("function", "", <<>>)
Undef == JS("undefined", "", <<>>)
IsFunction(v) == v.tag = "function"

\* Rows of the insertion builders: strings, numbers (s: the decimal text),
\* null, arrays, and objects and Maps as their entries in key order.  The keys
\* are column names, so none is an array index.
Str(s) == JS("string", s, <<>>)
Num(s) == JS("number", s, <<>>)
Null == JS("null", "", <<>>)
Pair(k, v) == JS("pair", k, <<v>>)
Obj(pairs) == JS("object", "", pairs)
MapOf(pairs) == JS("Map", "", pairs)
IsArray(v) == v.tag = "array"

\* Settlement values of the promises.
V(t, a, b) == [t |-> t, a |-> a, b |-> b]
NoValue == V("pending", 0, 0)
Void == V("undefined", 0, 0)
EngineErr(c, k) == V("engine error", c, k)
EngineResult(c) == V("engine result", c, 0)
Count(n) == V("number", n, 0)
HandleRef(h) == V("AsyncDatabase", h, 0)
Thrown(o, row) == V("thrown by callback", o, row)
NotCallable == V("TypeError: cb is not a function", 0, 0)

error_dbNotOpened == V("Error: The database is not open.", 0, 0)
TypeErrorFixed == V("TypeError: cb must be a Function.", 0, 0)
TypeErrorVariadic == V("TypeError: Missing argument : callback", 0, 0)

\* The object { sql, error } the insertion builders throw.
Wrapped(sql, error) == V("{ sql, error }", sql, error)

\* ---- inputs --------------------------------------------------------------
\* Values, keys or column names in one row given to insert or replace.
MaxLen == 2

\* The rest arguments of run/get/all.
ParamLists ==
    { <<>>, <<Arr(<<Scalar("a"), Scalar("b")>>)>>, <<Scalar("a"), Scalar("b")>> }

\* The params argument of the each() with a fixed signature.
ParamValues == { Scalar("a") }

\* The rest arguments of the variadic each(): the callback comes last, or
\* was left out.
EachArgLists ==
    { <<>>, <<Fn>>, <<Scalar("a")>>, <<Arr(<<Scalar("a"), Scalar("b")>>), Fn>>,
      <<Scalar("a"), Scalar("b"), Fn>> }

Callbacks == { Fn, Undef }

Tables == { "t" }

RowValues == { Str("x"), Num("1"), Null, Undef }

ColumnNames == { "a", "b" }

BoundedSeqs(S, n) == UNION { [1..k -> S] : k \in 0..n }

\* The key orders of a mapping: no key twice.
KeyLists ==
    { ks \in BoundedSeqs(ColumnNames, MaxLen) :
        \A i, j \in 1..Len(ks) : ks[i] = ks[j] => i = j }

Entries(ks, vs) == [i \in 1..Len(ks) |-> Pair(ks[i], vs[i])]

\* The rows given to insert and replace: arrays, objects and Maps.
Rows ==
    { Arr(vs) : vs \in BoundedSeqs(RowValues, MaxLen) }
        \cup UNION { { Obj(Entries(ks, vs)) : vs \in [1..Len(ks) -> RowValues] } :
                      ks \in KeyLists }
        \cup UNION { { MapOf(Entries(ks, vs)) : vs \in [1..Len(ks) -> RowValues] } :
                      ks \in KeyLists }

\* The rows given to the builders between the other calls.
SomeRows == { Obj(<<Pair("a", Str("x")), Pair("b", Null)>>) }

\* The columnNames and rows given to insertMany.
ManyColumnNames == { Arr(<<Str("a"), Str("b")>>) }

ManyRows ==
    { << Arr(<<Num("1"), Str("x")>>), MapOf(<<Pair("b", Str("x")), Pair("c", Null)>>) >> }

\* ---- promises ------------------------------------------------------------
\* (mutant) every resolve or reject overwrites the outcome.
SettleLastWins(o, st, v) == [o EXCEPT !.st = st, !.val = v]

\* A promise is settled by the first resolve or reject; later ones are ignored.
Settle(o, st, v) ==
    IF o.st = "pending" THEN [o EXCEPT !.st = st, !.val = v] ELSE o

resolve(o, v) == Settle(o, "resolved", v)
reject(o, v) == Settle(o, "rejected", v)

\* ---- records -------------------------------------------------------------
\* kind: the method; h: the handle it was called on (0 for the
\* static AsyncDatabase.open); args: the rest arguments; conn: the connection the
\* handle had when called (for open: the one constructed), 0 for none; dbst: what
\* the engine had reported of that connection when called; cbLog: the invocations
\* of the caller's per-row callback; sql: the statement when an insertion
\* builder generated it, "" when it is the caller's.
NewOp(kind, h, args, conn) ==
    [ kind |-> kind, h |-> h, args |-> args, conn |-> conn,
      dbst |-> IF conn \in 1..Len(conns) THEN conns[conn] ELSE "none",
      st |-> "pending", val |-> NoValue, cbLog |-> <<>>, sql |-> "" ]

\* prim: the primitive; op: the promise whose resolve/reject the callbacks close
\* over; bind: the parameter value handed to the engine; cb: the per-row
\* callback the row handler closes over; log: what the engine's callbacks
\* reported so far, the final callback ("ok" or "err") last.
NewCall(prim, conn, op, bind, cb) ==
    [ prim |-> prim, conn |-> conn, op |-> op, bind |-> bind, cb |-> cb,
      log |-> <<>> ]

NoBind == JS("none", "", <<>>)

\* by: "new" for the PromisedDatabase the program constructed, "inner" for an
\* AsyncDatabase constructed around the inner connection of another, "open"
\* for one that AsyncDatabase.open produced.
Handle(cls, db, by) == [cls |-> cls, db |-> db, by |-> by]

Promised == {"PromisedFixed", "PromisedVariadic"}

Versions == {"Async"} \cup Promised

Init ==
    /\ version \in Versions
    /\ handles = IF version \in Promised THEN <<Handle(version, 0, "new")>> ELSE <<>>
    /\ conns = <<>>
    /\ ops = <<>>
    /\ calls = <<>>

\* ---- the parameter forwarding rule --------------------------------------
\* (mutant) the single argument is not unwrapped.
ForwardAlwaysList(params) == Arr(params)

Forward(params) == IF Len(params) = 1 THEN params[1] ELSE Arr(params)


\* ---- helpers of the model ------------------------------------------------
HandleIds == 1..Len(handles)

\* The final callback of call c has fired.
Done(c) == calls[c].log # <<>> /\ calls[c].log[Len(calls[c].log)] \in {"ok", "err"}
CallIds == 1..Len(calls)
OpIds == 1..Len(ops)

\* (mutant) resolve/reject kept in a variable shared by the calls.
PromiseOfLatest(c) == Len(ops)

\* The promise a callback of call c settles: the resolve/reject its closure holds.

PromiseOf(c) == calls[c].op

Builders == {"insert", "replace", "insertMany"}

\* The promise of the this.run(sql) an insertion builder awaits: the one
\* created right after the builder's own.
RunOf(b) == b + 1

\* Promise o is that of a run() made by a builder, not by the program.
Internal(o) == o > 1 /\ ops[o - 1].kind \in Builders

\* The calls the program made so far: one promise each, and the calls of
\* new AsyncDatabase.
Issued ==
    Cardinality({o \in OpIds : ~Internal(o)})
        + Cardinality({h \in HandleIds : handles[h].by = "inner"})

RowsOf(log) == Len(SelectSeq(log, LAMBDA e : e = "row"))

RowEvents(log) == Len(SelectSeq(log, LAMBDA e : e \in {"row", "rowerr"}))

RECURSIVE RowEventsUpTo(_)
RowEventsUpTo(n) ==
    IF n = 0 THEN 0 ELSE RowEvents(calls[n].log) + RowEventsUpTo(n - 1)

\* A call that hands one callback to the engine.
Issue(kind, h, args, conn, bind, cb) ==
    /\ ops' = Append(ops, NewOp(kind, h, args, conn))
    /\ calls' = Append(calls, NewCall(kind, conn, Len(ops) + 1, bind, cb))

\* (mutant) the callback resolves whatever the engine reports.
FireIgnoresErr(c, err, value) ==
    /\ ops' = [ops EXCEPT ![PromiseOf(c)] = resolve(@, value)]
    /\ calls' = [calls EXCEPT ![c].log = Append(@, IF err THEN "err" ELSE "ok")]

\* The callback `if (err) reject(err); else resolve(value)` of call c fires.
Fire(c, err, value) ==
    /\ ops' = [ops EXCEPT ![PromiseOf(c)] =
                 IF err THEN reject(@, EngineErr(c, 0)) ELSE resolve(@, value)]
    /\ calls' = [calls EXCEPT ![c].log = Append(@, IF err THEN "err" ELSE "ok")]

\* ---- AsyncDatabase (src/src/index.ts) -----------------------------------
\* new AsyncDatabase(db), db being the `inner` of a handle.
AsyncConstruct(h) ==
    /\ version = "Async"
    /\ Issued < MaxCalls
    /\ h \in HandleIds
    /\ handles' = Append(handles, Handle("Async", handles[h].db, "inner"))
    /\ UNCHANGED <<version, conns, ops, calls>>

\* (mutant) the promise resolves before the engine's open callback fires.
AsyncOpenEager ==
    /\ version = "Async"
    /\ Issued < MaxCalls
    /\ conns' = Append(conns, "opening")
    /\ ops' = Append(ops,
           resolve(NewOp("open", 0, <<>>, Len(conns) + 1),
                   HandleRef(Len(handles) + 1)))
    /\ calls' = Append(calls, NewCall("open", Len(conns) + 1, Len(ops) + 1, NoBind, Undef))
    /\ handles' = Append(handles, Handle("Async", Len(conns) + 1, "open"))
    /\ UNCHANGED version

AsyncOpen ==
    /\ version = "Async"
    /\ Issued < MaxCalls
    /\ conns' = Append(conns, "opening")
    /\ Issue("open", 0, <<>>, Len(conns) + 1, NoBind, Undef)
    /\ UNCHANGED <<version, handles>>

AsyncOpenCb(c, err) ==
    /\ c \in CallIds
    /\ calls[c].prim = "open" /\ version = "Async" /\ ~Done(c)
    /\ conns' = [conns EXCEPT ![calls[c].conn] = IF err THEN "failed" ELSE "open"]
    /\ handles' = IF err THEN handles ELSE Append(handles, Handle("Async", calls[c].conn, "open"))
    /\ Fire(c, err, HandleRef(Len(handles) + 1))
    /\ UNCHANGED version

AsyncClose(h) ==
    /\ Issued < MaxCalls
    /\ h \in HandleIds /\ handles[h].cls = "Async"
    /\ Issue("close", h, <<>>, handles[h].db, NoBind, Undef)
    /\ UNCHANGED <<version, handles, conns>>

AsyncRun(h, params) ==
    /\ Issued < MaxCalls
    /\ h \in HandleIds /\ handles[h].cls = "Async"
    /\ Issue("run", h, params, handles[h].db, Forward(params), Undef)
    /\ UNCHANGED <<version, handles, conns>>

AsyncGet(h, params) ==
    /\ Issued < MaxCalls
    /\ h \in HandleIds /\ handles[h].cls = "Async"
    /\ Issue("get", h, params, handles[h].db, Forward(params), Undef)
    /\ UNCHANGED <<version, handles, conns>>

AsyncAll(h, params) ==
    /\ Issued < MaxCalls
    /\ h \in HandleIds /\ handles[h].cls = "Async"
    /\ Issue("all", h, params, handles[h].db, Forward(params), Undef)
    /\ UNCHANGED <<version, handles, conns>>

AsyncEach(h, params, callback) ==
    /\ Issued < MaxCalls
    /\ h \in HandleIds /\ handles[h].cls = "Async"
    /\ Issue("each", h, <<params, callback>>, handles[h].db, params, callback)
    /\ UNCHANGED <<version, handles, conns>>

AsyncExec(h) ==
    /\ Issued < MaxCalls
    /\ h \in HandleIds /\ handles[h].cls = "Async"
    /\ Issue("exec", h, <<>>, handles[h].db, NoBind, Undef)
    /\ UNCHANGED <<version, handles, conns>>


\* ---- PromisedDatabase (src/unnamed/part_001, part_000) ------------------
\* A call that settles its promise in the executor and reaches no engine call.
Refuse(kind, h, args, st, v) ==
    /\ ops' = Append(ops, Settle(NewOp(kind, h, args, 0), st, v))
    /\ UNCHANGED calls

PromisedOpen(h) ==
    /\ Issued < MaxCalls
    /\ h \in HandleIds /\ handles[h].cls \in Promised
    /\ conns' = Append(conns, "opening")
    /\ handles' = [handles EXCEPT ![h].db = Len(conns) + 1]
    /\ Issue("open", h, <<>>, Len(conns) + 1, NoBind, Undef)
    /\ UNCHANGED version

PromisedOpenCb(c, err) ==
    /\ c \in CallIds
    /\ calls[c].prim = "open" /\ version \in Promised /\ ~Done(c)
    /\ conns' = [conns EXCEPT ![calls[c].conn] = IF err THEN "failed" ELSE "open"]
    /\ Fire(c, err, Void)
    /\ UNCHANGED <<version, handles>>

\* (mutant) close without the guard on _db: undefined.close throws in the executor.
PromisedCloseNoGuard(h) ==
    /\ Issued < MaxCalls
    /\ h \in HandleIds /\ handles[h].cls \in Promised
    /\ IF handles[h].db = 0
       THEN Refuse("close", h, <<>>, "rejected", NotCallable)
       ELSE Issue("close", h, <<>>, handles[h].db, NoBind, Undef)
    /\ UNCHANGED <<version, handles, conns>>

PromisedClose(h) ==
    /\ Issued < MaxCalls
    /\ h \in HandleIds /\ handles[h].cls \in Promised
    /\ IF handles[h].db = 0
       THEN Refuse("close", h, <<>>, "resolved", Void)
       ELSE Issue("close", h, <<>>, handles[h].db, NoBind, Undef)
    /\ UNCHANGED <<version, handles, conns>>

\* (mutant) run tests what the engine reported of the connection.
PromisedRunIfOpen(h, params) ==
    /\ Issued < MaxCalls
    /\ h \in HandleIds /\ handles[h].cls \in Promised
    /\ IF handles[h].db = 0 \/ conns[handles[h].db] # "open"
       THEN Refuse("run", h, params, "rejected", error_dbNotOpened)
       ELSE Issue("run", h, params, handles[h].db, Forward(params), Undef)
    /\ UNCHANGED <<version, handles, conns>>

PromisedRun(h, params) ==
    /\ Issued < MaxCalls
    /\ h \in HandleIds /\ handles[h].cls \in Promised
    /\ IF handles[h].db = 0
       THEN Refuse("run", h, params, "rejected", error_dbNotOpened)
       ELSE Issue("run", h, params, handles[h].db, Forward(params), Undef)
    /\ UNCHANGED <<version, handles, conns>>

PromisedGet(h, params) ==
    /\ Issued < MaxCalls
    /\ h \in HandleIds /\ handles[h].cls \in Promised
    /\ IF handles[h].db = 0
       THEN Refuse("get", h, params, "rejected", error_dbNotOpened)
       ELSE Issue("get", h, params, handles[h].db, Forward(params), Undef)
    /\ UNCHANGED <<version, handles, conns>>

PromisedAll(h, params) ==
    /\ Issued < MaxCalls
    /\ h \in HandleIds /\ handles[h].cls \in Promised
    /\ IF handles[h].db = 0
       THEN Refuse("all", h, params, "rejected", error_dbNotOpened)
       ELSE Issue("all", h, params, handles[h].db, Forward(params), Undef)
    /\ UNCHANGED <<version, handles, conns>>

PromisedExec(h) ==
    /\ Issued < MaxCalls
    /\ h \in HandleIds /\ handles[h].cls \in Promised
    /\ IF handles[h].db = 0
       THEN Refuse("exec", h, <<>>, "rejected", error_dbNotOpened)
       ELSE Issue("exec", h, <<>>, handles[h].db, NoBind, Undef)
    /\ UNCHANGED <<version, handles, conns>>

\* The executor of each(): the rejections do not return, so the statements
\* after them run.  usage: the cb is no Function; p: the parameter to bind.
EachExecutor(h, args, usage, typeError, p, cb) ==
    LET o0 == NewOp("each", h, args, handles[h].db)
        o1 == IF usage THEN reject(o0, typeError) ELSE o0
    IN  IF handles[h].db = 0
        THEN /\ ops' = Append(ops, reject(o1, error_dbNotOpened))
             /\ UNCHANGED calls
        ELSE /\ ops' = Append(ops, o1)
             /\ calls' = Append(calls,
                    NewCall("each", handles[h].db, Len(ops) + 1, p, cb))

\* part_001: each(sql, params, cb).
PromisedEachFixed(h, params, cb) ==
    /\ Issued < MaxCalls
    /\ h \in HandleIds /\ handles[h].cls = "PromisedFixed"
    /\ EachExecutor(h, <<params, cb>>, ~IsFunction(cb),
                    TypeErrorFixed, params, cb)
    /\ UNCHANGED <<version, handles, conns>>

\* part_000: each(sql, ...params), the callback being popped off params.
PromisedEachVariadic(h, params) ==
    /\ Issued < MaxCalls
    /\ h \in HandleIds /\ handles[h].cls = "PromisedVariadic"
    /\ LET cb == IF Len(params) = 0 THEN Undef ELSE params[Len(params)]
           rest == IF Len(params) = 0 THEN <<>> ELSE SubSeq(params, 1, Len(params) - 1)
       IN  EachExecutor(h, params,
                        Len(params) = 0 \/ ~IsFunction(cb),
                        TypeErrorVariadic, Forward(rest), cb)
    /\ UNCHANGED <<version, handles, conns>>

\* ---- the insertion builders (src/unnamed/part_001) -----------------------
\* What a template literal or Array.prototype.join makes of a value.
StringOf(v) == IF v.tag \in {"undefined", "null"} THEN "" ELSE v.s

RECURSIVE join(_, _)
join(items, sep) ==
    IF items = <<>> THEN ""
    ELSE IF Len(items) = 1 THEN StringOf(items[1])
    ELSE StringOf(Head(items)) \o sep \o join(Tail(items), sep)

\* (mutant) strings are emitted as they are.
sqlifyValueBare(o) ==
    IF o.tag \in {"undefined", "null"} THEN Str("NULL") ELSE o

sqlifyValue(o) ==
    IF o.tag \in {"undefined", "null"} THEN Str("NULL")
    ELSE IF o.tag = "string" THEN Str("\"" \o o.s \o "\"")
    ELSE o

\* values.map(sqlifyValue)
mapSqlifyValue(values) == [i \in 1..Len(values) |-> sqlifyValue(values[i])]

\* o.get(k) / o[k]: undefined for a key that o does not have.
Lookup(o, k) ==
    IF \E i \in 1..Len(o.items) : o.items[i].s = k.s
    THEN o.items[CHOOSE i \in 1..Len(o.items) : o.items[i].s = k.s].items[1]
    ELSE Undef

\* Array.from(o.keys()) / Object.keys(o).
KeysOf(o) == [i \in 1..Len(o.items) |-> Str(o.items[i].s)]

\* keys: an array of names, or undefined for the keys of o itself.
getKeysValues(o, keys) ==
    LET ks == IF keys.tag = "undefined" THEN KeysOf(o) ELSE keys.items
    IN  [keys |-> ks, values |-> [i \in 1..Len(ks) |-> Lookup(o, ks[i])]]

sqlInsertParseObject(row) ==
    LET kv == getKeysValues(row, Undef)
        colNames == IF IsArray(row) THEN "" ELSE "(" \o join(kv.keys, ",") \o ")"
        values == IF IsArray(row) THEN mapSqlifyValue(row.items)
                  ELSE mapSqlifyValue(kv.values)
    IN  colNames \o " VALUES (" \o join(values, ",") \o ")"

\* The statement insertMany generates.
insertManySql(tableName, columnNames, rows) ==
    LET named == columnNames.tag = "array" /\ Len(columnNames.items) # 0
        colNames == IF named THEN "(" \o join(columnNames.items, ",") \o ")" ELSE ""
        cols == IF named THEN columnNames ELSE Undef
        rowOf(row) == IF IsArray(row) THEN row.items ELSE getKeysValues(row, cols).values
        values == [i \in 1..Len(rows) |->
                     Str("(" \o join(mapSqlifyValue(rowOf(rows[i])), ",") \o ")")]
    IN  "INSERT INTO " \o tableName \o " " \o colNames \o " VALUES "
            \o join(values, ",")

\* An async builder is called: its promise is created, then `this.run(sql)`
\* runs the executor of run with no parameter.
BuilderCall(kind, h, args, sql) ==
    LET b == [NewOp(kind, h, args, handles[h].db) EXCEPT !.sql = sql]
        r == [NewOp("run", h, <<>>, handles[h].db) EXCEPT !.sql = sql]
    IN  /\ Issued < MaxCalls
        /\ h \in HandleIds /\ handles[h].cls = "PromisedFixed"
        /\ IF handles[h].db = 0
           THEN /\ ops' = ops \o <<b, reject(r, error_dbNotOpened)>>
                /\ UNCHANGED calls
           ELSE /\ ops' = ops \o <<b, r>>
                /\ calls' = Append(calls,
                       NewCall("run", handles[h].db, Len(ops) + 2, Forward(<<>>), Undef))
        /\ UNCHANGED <<version, handles, conns>>

PromisedInsert(h, tableName, row) ==
    BuilderCall("insert", h, <<Str(tableName), row>>,
                "INSERT INTO " \o tableName \o " " \o sqlInsertParseObject(row))

PromisedReplace(h, tableName, row) ==
    BuilderCall("replace", h, <<Str(tableName), row>>,
                "REPLACE INTO " \o tableName \o " " \o sqlInsertParseObject(row))

PromisedInsertMany(h, tableName, columnNames, rows) ==
    BuilderCall("insertMany", h, <<Str(tableName), columnNames>> \o rows,
                insertManySql(tableName, columnNames, rows))

\* (mutant) the builder lets the error of run through as it is.
AwaitRunBare(b) ==
    /\ b \in OpIds /\ ops[b].kind \in Builders
    /\ ops[b].st = "pending" /\ ops[RunOf(b)].st # "pending"
    /\ ops' = [ops EXCEPT ![b] =
                 IF ops[RunOf(b)].st = "resolved"
                 THEN resolve(@, ops[RunOf(b)].val)
                 ELSE reject(@, ops[RunOf(b)].val)]
    /\ UNCHANGED <<version, handles, conns, calls>>

\* The builder resumes after `await this.run(sql)`: it returns what run
\* resolved with, or throws { sql, error } from the catch block.
AwaitRun(b) ==
    /\ b \in OpIds /\ ops[b].kind \in Builders
    /\ ops[b].st = "pending" /\ ops[RunOf(b)].st # "pending"
    /\ ops' = [ops EXCEPT ![b] =
                 IF ops[RunOf(b)].st = "resolved"
                 THEN resolve(@, ops[RunOf(b)].val)
                 ELSE reject(@, Wrapped(@.sql, ops[RunOf(b)].val))]
    /\ UNCHANGED <<version, handles, conns, calls>>

\* ---- the callbacks handed to the engine ---------------------------------
CloseCb(c, err) ==
    /\ c \in CallIds
    /\ calls[c].prim = "close" /\ ~Done(c)
    /\ conns' = [conns EXCEPT ![calls[c].conn] = IF err THEN @ ELSE "closed"]
    /\ Fire(c, err, Void)
    /\ UNCHANGED <<version, handles>>

RunCb(c, err) ==
    /\ c \in CallIds
    /\ calls[c].prim = "run" /\ ~Done(c)
    /\ Fire(c, err, EngineResult(c))
    /\ UNCHANGED <<version, handles, conns>>

GetCb(c, err) ==
    /\ c \in CallIds
    /\ calls[c].prim = "get" /\ ~Done(c)
    /\ Fire(c, err, EngineResult(c))
    /\ UNCHANGED <<version, handles, conns>>

AllCb(c, err) ==
    /\ c \in CallIds
    /\ calls[c].prim = "all" /\ ~Done(c)
    /\ Fire(c, err, EngineResult(c))
    /\ UNCHANGED <<version, handles, conns>>

ExecCb(c, err) ==
    /\ c \in CallIds
    /\ calls[c].prim = "exec" /\ ~Done(c)
    /\ Fire(c, err, Void)
    /\ UNCHANGED <<version, handles, conns>>

\* The per-row handler of each(): the engine reports an error or a row; the
\* row goes to the caller's callback, which returns or throws.
EachRowCb(c, err, throws) ==
    /\ c \in CallIds
    /\ calls[c].prim = "each" /\ ~Done(c)
    /\ RowEventsUpTo(Len(calls)) < MaxRows
    /\ LET o == PromiseOf(c)
           row == RowsOf(calls[c].log) + 1
           k == Len(calls[c].log) + 1
       IN  IF err
           THEN /\ ~throws
                /\ ops' = [ops EXCEPT ![o] = reject(@, EngineErr(c, k))]
                /\ calls' = [calls EXCEPT ![c].log = Append(@, "rowerr")]
           ELSE /\ calls' = [calls EXCEPT ![c].log = Append(@, "row")]
                /\ IF IsFunction(calls[c].cb)
                   THEN ops' = [ops EXCEPT ![o] =
                           LET called == [@ EXCEPT !.cbLog =
                                   Append(@, [row |-> row, threw |-> throws])]
                           IN  IF throws THEN reject(called, Thrown(o, row)) ELSE called]
                   ELSE /\ ~throws
                        /\ ops' = [ops EXCEPT ![o] = reject(@, NotCallable)]
    /\ UNCHANGED <<version, handles, conns>>

\* (mutant) the completion handler resolves without the count.
EachCompleteCbNoCount(c, err) ==
    /\ c \in CallIds
    /\ calls[c].prim = "each" /\ ~Done(c)
    /\ ops' = [ops EXCEPT ![PromiseOf(c)] =
                 IF err THEN reject(@, EngineErr(c, 0)) ELSE resolve(@, Void)]
    /\ calls' = [calls EXCEPT ![c].log = Append(@, IF err THEN "err" ELSE "ok")]
    /\ UNCHANGED <<version, handles, conns>>

\* The completion handler of each().
EachCompleteCb(c, err) ==
    /\ c \in CallIds
    /\ calls[c].prim = "each" /\ ~Done(c)
    /\ ops' = [ops EXCEPT ![PromiseOf(c)] =
                 IF err THEN reject(@, EngineErr(c, 0))
                 ELSE resolve(@, Count(RowsOf(calls[c].log)))]
    /\ calls' = [calls EXCEPT ![c].log = Append(@, IF err THEN "err" ELSE "ok")]
    /\ UNCHANGED <<version, handles, conns>>

\* ---- specification -------------------------------------------------------
Next ==
    \/ \E h \in 1..MaxCalls : AsyncConstruct(h)
    \/ AsyncOpen
    \/ \E c \in 1..MaxCalls, err \in BOOLEAN : AsyncOpenCb(c, err)
    \/ \E h \in 1..MaxCalls : AsyncClose(h)
    \/ \E h \in 1..MaxCalls, params \in ParamLists : AsyncRun(h, params)
    \/ \E h \in 1..MaxCalls, params \in ParamLists : AsyncGet(h, params)
    \/ \E h \in 1..MaxCalls, params \in ParamLists : AsyncAll(h, params)
    \/ \E h \in 1..MaxCalls, params \in ParamValues, cb \in {Fn} : AsyncEach(h, params, cb)
    \/ \E h \in 1..MaxCalls : AsyncExec(h)
    \/ \E h \in 1..MaxCalls : PromisedOpen(h)
    \/ \E c \in 1..MaxCalls, err \in BOOLEAN : PromisedOpenCb(c, err)
    \/ \E h \in 1..MaxCalls : PromisedClose(h)
    \/ \E h \in 1..MaxCalls, params \in ParamLists : PromisedRun(h, params)
    \/ \E h \in 1..MaxCalls, params \in ParamLists : PromisedGet(h, params)
    \/ \E h \in 1..MaxCalls, params \in ParamLists : PromisedAll(h, params)
    \/ \E h \in 1..MaxCalls, params \in ParamValues, cb \in Callbacks :
          PromisedEachFixed(h, params, cb)
    \/ \E h \in 1..MaxCalls, params \in EachArgLists : PromisedEachVariadic(h, params)
    \/ \E h \in 1..MaxCalls : PromisedExec(h)
    \/ \E c \in 1..MaxCalls, err \in BOOLEAN : CloseCb(c, err)
    \/ \E c \in 1..MaxCalls, err \in BOOLEAN : RunCb(c, err)
    \/ \E c \in 1..MaxCalls, err \in BOOLEAN : GetCb(c, err)
    \/ \E c \in 1..MaxCalls, err \in BOOLEAN : AllCb(c, err)
    \/ \E c \in 1..MaxCalls, err \in BOOLEAN : ExecCb(c, err)
    \/ \E c \in 1..MaxCalls, err, throws \in BOOLEAN : EachRowCb(c, err, throws)
    \/ \E c \in 1..MaxCalls, err \in BOOLEAN : EachCompleteCb(c, err)
    \/ \E h \in 1..MaxCalls, t \in Tables, row \in SomeRows : PromisedInsert(h, t, row)
    \/ \E h \in 1..MaxCalls, t \in Tables, row \in SomeRows : PromisedReplace(h, t, row)
    \/ \E h \in 1..MaxCalls, t \in Tables, cols \in ManyColumnNames, rows \in ManyRows :
          PromisedInsertMany(h, t, cols, rows)
    \/ \E b \in 1..(2 * MaxCalls) : AwaitRun(b)

Spec == Init /\ [][Next]_vars

\* The statement generation alone: one insert or replace of any row on the
\* PromisedDatabase the program constructed.
InitSql == Init /\ version = "PromisedFixed"

NextSql ==
    \/ \E t \in Tables, row \in Rows : ops = <<>> /\ PromisedInsert(1, t, row)
    \/ \E t \in Tables, row \in Rows : ops = <<>> /\ PromisedReplace(1, t, row)
    \/ \E b \in 1..(2 * MaxCalls) : AwaitRun(b)

SpecSql == InitSql /\ [][NextSql]_vars


\* ---- vocabulary of the properties ---------------------------------------
DataKinds == {"run", "get", "all", "each", "exec"}

\* The engine calls made on behalf of promise o.
CallsOf(o) == {c \in CallIds : calls[c].op = o}

\* The callback argument of an each() call.
OpCb(o) ==
    IF version = "PromisedVariadic"
    THEN IF Len(ops[o].args) = 0 THEN Undef ELSE ops[o].args[Len(ops[o].args)]
    ELSE ops[o].args[2]

\* The usage error of an each() call of PromisedDatabase, if any.
UsageError(o) ==
    ops[o].kind = "each" /\ version \in Promised /\ ~IsFunction(OpCb(o))

HasRowErr(c) == \E k \in 1..Len(calls[c].log) : calls[c].log[k] = "rowerr"

HasThrow(o) == \E i \in 1..Len(ops[o].cbLog) : ops[o].cbLog[i].threw

\* open() was called on the handle of o before o.
OpenCalledBefore(o) ==
    \E j \in 1..(o - 1) : ops[j].kind = "open" /\ ops[j].h = ops[o].h

\* ---- C1 ------------------------------------------------------------------
\* C1: if the per-row callback of each() throws on some row, the promise is
\* rejected with exactly the thrown value and the callback is not invoked for
\* any later row.  (Stated for calls in which the engine reported no per-row
\* error, so that the throw is the first failure.)
C1_ThrowEndsEach ==
    \A o \in OpIds : \A c \in CallsOf(o) :
        (ops[o].kind = "each" /\ ~HasRowErr(c)) =>
            \A i \in 1..Len(ops[o].cbLog) :
                ops[o].cbLog[i].threw =>
                    /\ ops[o].st = "rejected"
                    /\ ops[o].val = Thrown(o, ops[o].cbLog[i].row)
                    /\ i = Len(ops[o].cbLog)

\* ---- C2 ------------------------------------------------------------------
\* C2: a data operation (run, get, all, each, exec) called on a handle whose
\* connection is not open (never opened, open pending, open failed, closed) is
\* rejected with the "not open" error and makes no engine call.
C2_NotOpenRejects ==
    \A o \in OpIds :
        (ops[o].kind \in DataKinds /\ ops[o].dbst # "open" /\ ~UsageError(o)) =>
            /\ ops[o].st = "rejected"
            /\ ops[o].val = error_dbNotOpened
            /\ CallsOf(o) = {}

\* ---- C3 ------------------------------------------------------------------
\* C3: PromisedDatabase.each called with a callback that is missing or is no
\* function is rejected with the TypeError and makes no engine call, with or
\* without a connection.
C3_UsageErrorBeforeEngine ==
    \A o \in OpIds :
        UsageError(o) =>
            /\ ops[o].st = "rejected"
            /\ ops[o].val \in {TypeErrorFixed, TypeErrorVariadic}
            /\ CallsOf(o) = {}


\* ---- C4 ------------------------------------------------------------------
\* C4: when the engine reports no error and the callback never throws, the
\* callback has been invoked once per row produced so far, in production
\* order; the promise stays pending until the completion handler fires and
\* then resolves with the number of rows.
C4_EachDeliversRowsThenCount ==
    \A c \in CallIds :
        LET o == calls[c].op
            M == RowsOf(calls[c].log)
        IN  ( /\ calls[c].prim = "each"
              /\ IsFunction(calls[c].cb)
              /\ ~HasRowErr(c) /\ ~HasThrow(o)
              /\ ~(Done(c) /\ calls[c].log[Len(calls[c].log)] = "err") ) =>
                /\ Len(ops[o].cbLog) = M
                /\ \A i \in 1..M : ops[o].cbLog[i].row = i
                /\ ~Done(c) => ops[o].st = "pending"
                /\ Done(c) => ops[o].st = "resolved" /\ ops[o].val = Count(M)

\* An each() over two rows has completed and resolved with 2.
C4_Witness ==
    \E c \in CallIds :
        /\ calls[c].prim = "each" /\ calls[c].log = <<"row", "row", "ok">>
        /\ ~HasThrow(calls[c].op)
        /\ Len(ops[calls[c].op].cbLog) = 2
        /\ ops[calls[c].op].val = Count(2)

\* ---- C5 ------------------------------------------------------------------
\* The error the k-th callback of call c reported, for a k at which one was.
ReportedErrs(c) ==
    {k \in 1..Len(calls[c].log) : calls[c].log[k] \in {"rowerr", "err"}}

ErrAt(c, k) == IF calls[c].log[k] = "err" THEN EngineErr(c, 0) ELSE EngineErr(c, k)

\* The rejection the k-th callback of call c asks for, NoValue if none: an
\* engine error, the value the caller's callback threw on that row, or the
\* TypeError of calling what is no function.
RowAt(c, k) == RowsOf(SubSeq(calls[c].log, 1, k))

Rejection(c, k) ==
    LET o == calls[c].op
    IN  IF calls[c].log[k] \in {"rowerr", "err"} THEN ErrAt(c, k)
        ELSE IF calls[c].log[k] = "ok" THEN NoValue
        ELSE IF ~IsFunction(calls[c].cb) THEN NotCallable
        ELSE IF ops[o].cbLog[RowAt(c, k)].threw THEN Thrown(o, RowAt(c, k))
        ELSE NoValue

Rejecting(c) == {k \in 1..Len(calls[c].log) : Rejection(c, k) # NoValue}

\* The value of the first rejection of the promise of call c.
FirstRejection(c) ==
    LET o == calls[c].op
    IN  IF UsageError(o)
        THEN IF version = "PromisedFixed" THEN TypeErrorFixed ELSE TypeErrorVariadic
        ELSE Rejection(c, CHOOSE k \in Rejecting(c) : \A j \in Rejecting(c) : k <= j)

\* C5 (as claimed): every call that reaches the engine invokes the primitive
\* once, and an error reported by the engine's callback is the value the
\* promise is rejected with.  (Stated for the first error a call reports, and
\* for calls without a usage error.)
C5_EveryEngineErrorIsTheRejection ==
    \A o \in OpIds :
        /\ Cardinality(CallsOf(o)) <= 1
        /\ \A c \in CallsOf(o) :
              ~UsageError(o) =>
                  \A k \in ReportedErrs(c) :
                      (\A j \in ReportedErrs(c) : k <= j) =>
                          ops[o].st = "rejected" /\ ops[o].val = ErrAt(c, k)

\* C5 (amended): every call that reaches the engine invokes the corresponding
\* primitive once, on the handle's connection; once the engine's callback has
\* reported an error the promise is rejected, never resolved, and its value is
\* that error unless an earlier event of the same each() call (usage error,
\* per-row error, throw of the callback) had rejected it already, in which
\* case it is the value of that first rejection.
C5_EngineErrorRejects ==
    \A o \in OpIds :
        /\ Cardinality(CallsOf(o)) <= 1
        /\ \A c \in CallsOf(o) :
              /\ calls[c].prim = ops[o].kind
              /\ calls[c].conn = ops[o].conn
              /\ ReportedErrs(c) # {} =>
                    /\ ops[o].st = "rejected"
                    /\ ops[o].val = FirstRejection(c)
                    /\ (ops[o].kind # "each" => ops[o].val = EngineErr(c, 0))

\* The callback of an each() threw on the first row, the engine then reported
\* an error, and the promise stays rejected with the thrown value.
C5_Witness ==
    \E c \in CallIds :
        /\ calls[c].prim = "each"
        /\ calls[c].log = <<"row", "rowerr">>
        /\ ops[calls[c].op].cbLog = <<[row |-> 1, threw |-> TRUE]>>
        /\ ops[calls[c].op].st = "rejected"
        /\ ops[calls[c].op].val = Thrown(calls[c].op, 1)

\* ---- C6 ------------------------------------------------------------------
\* The parameter arguments of the call behind c: the rest arguments, without
\* the trailing callback for the variadic each().
ParamArgs(c) ==
    LET a == ops[calls[c].op].args
    IN  IF calls[c].prim = "each"
        THEN IF Len(a) = 0 THEN a ELSE SubSeq(a, 1, Len(a) - 1)
        ELSE a

Forwarding(c) ==
    \/ calls[c].prim \in {"run", "get", "all"}
    \/ calls[c].prim = "each" /\ version = "PromisedVariadic"

\* C6: run, get, all and the variadic each() bind the single parameter
\* argument itself when there is exactly one, and the array of all the
\* parameter arguments (empty for none) otherwise.
C6_ParameterForwarding ==
    \A c \in CallIds :
        Forwarding(c) =>
            /\ Len(ParamArgs(c)) = 1 => calls[c].bind = ParamArgs(c)[1]
            /\ Len(ParamArgs(c)) # 1 =>
                  calls[c].bind.tag = "array" /\ calls[c].bind.items = ParamArgs(c)

\* A variadic each() was given one parameter argument, an array, and the
\* callback, and bound that array itself, not an array holding it.
C6_Witness ==
    \E c \in CallIds :
        /\ calls[c].prim = "each" /\ Forwarding(c)
        /\ Len(ops[calls[c].op].args) = 2 /\ Len(ParamArgs(c)) = 1
        /\ calls[c].bind = Arr(<<Scalar("a"), Scalar("b")>>)
        /\ calls[c].bind # Arr(ParamArgs(c))


\* ---- C7 ------------------------------------------------------------------
\* C7: the connection of a handle never changes once set, and no two handles
\* wrap the same connection.
C7_OneConnectionPerHandle ==
    [][ /\ \A h \in HandleIds :
              handles[h].db # 0 => handles'[h].db = handles[h].db
        /\ \A h1, h2 \in 1..Len(handles') :
              (h1 # h2 /\ handles'[h1].db # 0) => handles'[h1].db # handles'[h2].db
      ]_vars

\* ---- C8 ------------------------------------------------------------------
\* The handles AsyncDatabase.open produced around connection n.
Produced(n) == {h \in HandleIds : handles[h].by = "open" /\ handles[h].db = n}

\* C8: the promise of AsyncDatabase.open is pending until the engine's open
\* callback fires; on an error it is rejected with that error and no handle is
\* produced; otherwise it resolves with a new handle around the connection
\* that call constructed.
C8_AsyncOpen ==
    \A o \in OpIds :
        (ops[o].kind = "open" /\ version = "Async") =>
            /\ Cardinality(CallsOf(o)) = 1
            /\ \A c \in CallsOf(o) :
                  /\ calls[c].conn = ops[o].conn
                  /\ calls[c].log = <<>> =>
                        ops[o].st = "pending" /\ Produced(ops[o].conn) = {}
                  /\ calls[c].log = <<"err">> =>
                        /\ ops[o].st = "rejected" /\ ops[o].val = EngineErr(c, 0)
                        /\ Produced(ops[o].conn) = {}
                  /\ calls[c].log = <<"ok">> =>
                        /\ ops[o].st = "resolved"
                        /\ ops[o].val.t = "AsyncDatabase"
                        /\ Produced(ops[o].conn) = {ops[o].val.a}
                  /\ calls[c].log \in {<<>>, <<"err">>, <<"ok">>}

\* Two opens: one resolved with its handle, the other failed.
C8_Witness ==
    \E o1, o2 \in OpIds :
        /\ ops[o1].kind = "open" /\ version = "Async" /\ ops[o1].st = "resolved"
        /\ ops[o2].kind = "open" /\ version = "Async" /\ ops[o2].st = "rejected"
        /\ o2 < o1

\* ---- C9 ------------------------------------------------------------------
\* C9: PromisedDatabase.close on a handle on which open was never called
\* resolves with no value and makes no engine call; on a handle with a
\* connection it calls the engine's close once, on that connection, stays
\* pending until the callback fires, and then resolves with no value or is
\* rejected with the engine's error.
C9_PromisedClose ==
    \A o \in OpIds :
        (ops[o].kind = "close" /\ version \in Promised) =>
            IF ~OpenCalledBefore(o)
            THEN ops[o].st = "resolved" /\ ops[o].val = Void /\ CallsOf(o) = {}
            ELSE /\ Cardinality(CallsOf(o)) = 1
                 /\ \A c \in CallsOf(o) :
                       /\ calls[c].prim = "close"
                       /\ calls[c].conn # 0 /\ calls[c].conn = ops[o].conn
                       /\ calls[c].log = <<>> => ops[o].st = "pending"
                       /\ calls[c].log = <<"ok">> =>
                             ops[o].st = "resolved" /\ ops[o].val = Void
                       /\ calls[c].log = <<"err">> =>
                             ops[o].st = "rejected" /\ ops[o].val = EngineErr(c, 0)
                       /\ calls[c].log \in {<<>>, <<"ok">>, <<"err">>}

\* A close on an opened handle resolved after the engine's callback.
C9_Witness ==
    \E o \in OpIds : \E c \in CallsOf(o) :
        /\ ops[o].kind = "close" /\ version \in Promised
        /\ OpenCalledBefore(o)
        /\ calls[c].log = <<"ok">> /\ ops[o].st = "resolved"

\* ---- C10 -----------------------------------------------------------------
\* What the engine's callbacks settle the promise of call c with.
OwnOutcomes(c) ==
    {EngineErr(c, k) : k \in 0..Len(calls[c].log)}
        \cup {EngineResult(c), Void, Count(RowsOf(calls[c].log))}
        \cup {Thrown(calls[c].op, r) : r \in 1..RowsOf(calls[c].log)}
        \cup {HandleRef(h) : h \in Produced(calls[c].conn)}
        \cup {NotCallable}

\* C10: whatever the order in which the engine fires the callbacks of the
\* calls in flight, a promise is settled only by a callback of its own engine
\* call: it is pending as long as none has fired, settled once the final one
\* has, and its value is an error or result of that call.
C10_SettledByOwnCallback ==
    \A o \in OpIds : \A c \in CallsOf(o) :
        ~UsageError(o) =>
            /\ calls[c].log = <<>> => ops[o].st = "pending"
            /\ Done(c) => ops[o].st # "pending"
            /\ ops[o].st # "pending" => ops[o].val \in OwnOutcomes(c)
            /\ (ops[o].val.t \in {"engine error", "engine result"}) => ops[o].val.a = c

\* Two calls in flight on one handle, the later one settled first.
C10_Witness ==
    \E o1, o2 \in OpIds : \E c1 \in CallsOf(o1), c2 \in CallsOf(o2) :
        /\ o1 < o2 /\ ops[o1].h = ops[o2].h /\ ops[o1].h # 0
        /\ calls[c1].conn = calls[c2].conn
        /\ calls[c1].log = <<>> /\ ops[o1].st = "pending"
        /\ Done(c2) /\ ops[o2].st = "resolved" /\ ops[o2].val = EngineResult(c2)

C14_EachSettlesOnce ==
    \A o \in OpIds :
        ops[o].kind = "each" =>
            IF UsageError(o)
            THEN /\ ops[o].st = "rejected"
                 /\ ops[o].val =
                       IF version = "PromisedFixed" THEN TypeErrorFixed ELSE TypeErrorVariadic
            ELSE IF CallsOf(o) = {}
            THEN ops[o].st = "rejected" /\ ops[o].val = error_dbNotOpened
            ELSE \A c \in CallsOf(o) :
                    IF Rejecting(c) # {}
                    THEN ops[o].st = "rejected" /\ ops[o].val = FirstRejection(c)
                    ELSE IF Done(c)
                    THEN ops[o].st = "resolved" /\ ops[o].val = Count(RowsOf(calls[c].log))
                    ELSE ops[o].st = "pending"

\* The callback threw on the only row and the engine then completed without
\* an error: the promise stays rejected with the thrown value.
C14_Witness ==
    \E c \in CallIds :
        /\ calls[c].prim = "each" /\ calls[c].log = <<"row", "ok">>
        /\ HasThrow(calls[c].op)
        /\ ops[calls[c].op].st = "rejected"
        /\ ops[calls[c].op].val = Thrown(calls[c].op, 1)

\* ---- C11 -----------------------------------------------------------------
\* C11: insert, replace and insertMany hand the statement they generated to
\* run; their promise is settled only after run's: resolved with the value
\* run resolved with, unchanged, or rejected with { sql, error } holding the
\* generated statement and the value run was rejected with (the engine's
\* error or the "not open" error).
C11_BuilderWrapsRunError ==
    \A b \in OpIds :
        ops[b].kind \in Builders =>
            LET r == RunOf(b)
            IN  /\ r \in OpIds /\ ops[r].kind = "run"
                /\ ops[r].h = ops[b].h /\ ops[r].sql = ops[b].sql /\ ops[b].sql # ""
                /\ ops[r].st = "pending" => ops[b].st = "pending"
                /\ ops[b].st = "resolved" =>
                      ops[r].st = "resolved" /\ ops[b].val = ops[r].val
                /\ ops[b].st = "rejected" =>
                      /\ ops[r].st = "rejected"
                      /\ ops[b].val.t = "{ sql, error }"
                      /\ ops[b].val.a = ops[b].sql
                      /\ ops[b].val.b = ops[r].val
                      /\ \/ ops[r].val = error_dbNotOpened /\ CallsOf(r) = {}
                         \/ \E c \in CallsOf(r) : ops[r].val = EngineErr(c, 0)

\* An insert on an opened handle whose run the engine failed: the insert is
\* rejected with the statement and the engine's error.
C11_Witness ==
    \E b \in OpIds : \E c \in CallsOf(RunOf(b)) :
        /\ ops[b].kind = "insert" /\ ops[b].st = "rejected"
        /\ calls[c].log = <<"err">>
        /\ ops[b].val.a = "INSERT INTO t (a,b) VALUES (\"x\",NULL)"
        /\ ops[b].val.b = EngineErr(c, 0)

\* ---- C12 -----------------------------------------------------------------
\* How a value reads in the VALUES list.
Emitted(v) ==
    IF v.tag \in {"null", "undefined"} THEN "NULL"
    ELSE IF v.tag = "string" THEN "\"" \o v.s \o "\""
    ELSE v.s

\* The texts, in order, with a comma between two of them.
RECURSIVE CommaList(_)
CommaList(texts) ==
    IF Len(texts) = 0 THEN ""
    ELSE IF Len(texts) = 1 THEN texts[1]
    ELSE CommaList(SubSeq(texts, 1, Len(texts) - 1)) \o "," \o texts[Len(texts)]

\* C12: the statement insert(table, row) generates and hands to run has, for
\* an array row, no column-name list and the values of the row in order in
\* the VALUES list; for an object or a Map, the keys in key order as the
\* column-name list and their values in the same order in the VALUES list;
\* strings read quoted, null and undefined read NULL.
C12_InsertStatement ==
    \A o \in OpIds :
        ops[o].kind = "insert" =>
            LET table == ops[o].args[1].s
                row == ops[o].args[2]
                n == Len(row.items)
            IN  /\ ops[RunOf(o)].sql = ops[o].sql
                /\ IsArray(row) =>
                      ops[o].sql = "INSERT INTO " \o table \o "  VALUES ("
                          \o CommaList([i \in 1..n |-> Emitted(row.items[i])]) \o ")"
                /\ row.tag \in {"object", "Map"} =>
                      ops[o].sql = "INSERT INTO " \o table \o " ("
                          \o CommaList([i \in 1..n |-> row.items[i].s]) \o ") VALUES ("
                          \o CommaList([i \in 1..n |-> Emitted(row.items[i].items[1])])
                          \o ")"
                /\ row = Arr(<<Str("x"), Null>>) =>
                      ops[o].sql = "INSERT INTO t  VALUES (\"x\",NULL)"
                /\ row = Obj(<<Pair("b", Undef), Pair("a", Str("x"))>>) =>
                      ops[o].sql = "INSERT INTO t (b,a) VALUES (NULL,\"x\")"

\* An insert of a Map whose keys were set in the order b, a, with a string
\* and an undefined value.
C12_Witness ==
    \E o \in OpIds :
        /\ ops[o].kind = "insert"
        /\ ops[o].args[2] = MapOf(<<Pair("b", Str("x")), Pair("a", Undef)>>)
        /\ ops[o].sql = "INSERT INTO t (b,a) VALUES (\"x\",NULL)"
        /\ ops[RunOf(o)].sql = ops[o].sql

====
